---------------------------- MODULE Spec2Model ----------------------------
(***************************************************************************)
(* Model of the Ketryx project data extractor (ketryx_data_extractor.py): *)
(* the extract() pipeline of KetryxDataExtractor and the pure helpers the *)
(* field inference uses; and of the loop of the template agent            *)
(* (ketryx_template_agent.py, run_agent).                                  *)
(*                                                                         *)
(* Python strings are sequences of one-character strings, so that         *)
(* slicing, substring tests, lower-casing and lexicographic sorting are    *)
(* computed as the code computes them.                                     *)
(***************************************************************************)
EXTENDS Integers, Sequences, FiniteSets, TLC

VARIABLES
    pc,                   \* position of the running call
    arg,                  \* arguments of a helper called on its own
    ret,                  \* its return value
    item_types,           \* self.item_types: ordered dict, a sequence of ItemTypeInfo
    all_records_by_type,  \* self.all_records_by_type: sequence of [name, records]
    relation_types,       \* self.relation_types: ordered dict, a sequence of RelationTypeInfo
    versions,             \* extract()'s locals versions and current_version
    responses,            \* what query_records returned, a [key, response] per call
    output,               \* the document extract() returns
    error,                \* the exception that ended the call, "" when none
    iteration,            \* run_agent: the local iteration
    total_cost,           \* run_agent: the local total_cost, in millionths of a dollar
    container_id,         \* run_agent: the local container_id, "" for None
    has_file,             \* run_agent: the local has_file
    messages,             \* run_agent: the roles of the list messages
    requests,             \* the calls of client.beta.messages.create made so far
    written               \* the writes to output_path so far, [iteration, file_id] each

\* the locals of run_agent and what it did to the client and the disk
agent_vars == <<iteration, total_cost, container_id, has_file, messages, requests,
                written>>

vars == <<pc, arg, ret, item_types, all_records_by_type, relation_types,
          versions, responses, output, error, agent_vars>>

\* run_agent is not running
AgentIdle ==
    /\ iteration = 0
    /\ total_cost = 0
    /\ container_id = ""
    /\ has_file = FALSE
    /\ messages = << >>
    /\ requests = 0
    /\ written = << >>

-----------------------------------------------------------------------------
(* Bounds of the model *)

\* longest record list drawn freely from SmallRecords
MaxRecs == 2
\* longest value list drawn freely from BaseValues
MaxVals == 2
\* longest generated value list (must exceed MAX_UNIQUE_VALUES)
MaxGen == 27
\* longest list of plain values around one markup value (must exceed 10)
MaxHtmlLen == 12
\* most relation names carried by one generated record (must exceed 20)
MaxRelNames == 22
\* longest item listing drawn for type discovery
MaxItems == 2
\* most records of a generated list whose last record alone carries an ID
\* (must exceed 20)
MaxScan == 21
\* largest max_iterations run_agent is called with
MaxIterations == 3

-----------------------------------------------------------------------------
(* Program constants *)

MAX_SAMPLE_VALUES == 5
MAX_UNIQUE_VALUES == 25
MAX_SAMPLE_RECORDS == 3
MAX_STRING_LENGTH == 100

-----------------------------------------------------------------------------
(* Python strings *)

Min(a, b) == IF a <= b THEN a ELSE b

\* the function f on 1..n written out as the list of its values
Tuple(f) == SubSeq(f, 1, Len(f))

\* s[:n]
Take(s, n) == SubSeq(s, 1, Min(n, Len(s)))

\* n copies of character c
Rep(c, n) == Tuple([i \in 1..n |-> c])

\* the characters the model uses, in code point order
Ascii ==
    << " ", "%", "'", "-", ".", "0", "1", "2", "3", "4", "5", "6", "7", "8", "9",
       "<", ">",
       "A", "B", "C", "D", "E", "F", "G", "H", "I", "J", "K", "L", "M",
       "N", "O", "P", "Q", "R", "S", "T", "U", "V", "W", "X", "Y", "Z",
       "_",
       "a", "b", "c", "d", "e", "f", "g", "h", "i", "j", "k", "l", "m",
       "n", "o", "p", "q", "r", "s", "t", "u", "v", "w", "x", "y", "z",
       "~" >>

Chars == {Ascii[i] : i \in 1..Len(Ascii)}

\* rank of a character in code point order
Ord == [c \in Chars |-> CHOOSE i \in 1..Len(Ascii) : Ascii[i] = c]

UpperCase == << "A", "B", "C", "D", "E", "F", "G", "H", "I", "J", "K", "L", "M",
                "N", "O", "P", "Q", "R", "S", "T", "U", "V", "W", "X", "Y", "Z" >>

LowerCase == << "a", "b", "c", "d", "e", "f", "g", "h", "i", "j", "k", "l", "m",
                "n", "o", "p", "q", "r", "s", "t", "u", "v", "w", "x", "y", "z" >>

Letters == {UpperCase[i] : i \in 1..26} \cup {LowerCase[i] : i \in 1..26}

\* c.lower() for one character
LowerChar(c) ==
    IF c \in {UpperCase[i] : i \in 1..26}
    THEN LowerCase[CHOOSE i \in 1..26 : UpperCase[i] = c]
    ELSE c

\* str.lower()
Lower(s) == Tuple([i \in 1..Len(s) |-> LowerChar(s[i])])

\* str.replace(a, b) for single characters a, b
ReplaceChar(s, a, b) == Tuple([i \in 1..Len(s) |-> IF s[i] = a THEN b ELSE s[i]])

\* p in s
Contains(s, p) ==
    \E i \in 1..(Len(s) - Len(p) + 1) : SubSeq(s, i, i + Len(p) - 1) = p

\* s < t, as Python compares strings
StrLess(s, t) ==
    \/ /\ Len(s) < Len(t)
       /\ \A k \in 1..Len(s) : s[k] = t[k]
    \/ \E i \in 1..Min(Len(s), Len(t)) :
          /\ \A k \in 1..(i - 1) : s[k] = t[k]
          /\ s[i] # t[i]
          /\ Ord[s[i]] < Ord[t[i]]

Digits == << "0", "1", "2", "3", "4", "5", "6", "7", "8", "9" >>

RECURSIVE NatStr(_)
NatStr(n) == IF n < 10 THEN << Digits[n + 1] >>
             ELSE NatStr(n \div 10) \o << Digits[(n % 10) + 1] >>

\* str(n) for an int
IntStr(n) == IF n < 0 THEN << "-" >> \o NatStr(-n) ELSE NatStr(n)

-----------------------------------------------------------------------------
(* JSON values *)

None == [kind |-> "none", s |-> << >>, n |-> 0]
StrV(s) == [kind |-> "str", s |-> s, n |-> 0]
IntV(n) == [kind |-> "int", s |-> << >>, n |-> n]
BoolV(b) == [kind |-> "bool", s |-> << >>, n |-> IF b THEN 1 ELSE 0]

IsStr(v) == v.kind = "str"

\* str(v)
PyStr(v) ==
    CASE v.kind = "str" -> v.s
      [] v.kind = "int" -> IntStr(v.n)
      [] v.kind = "bool" -> IF v.n = 1 THEN << "T", "r", "u", "e" >>
                                      ELSE << "F", "a", "l", "s", "e" >>
      [] OTHER -> << "N", "o", "n", "e" >>

\* bool(v)
Truthy(v) ==
    CASE v.kind = "str" -> v.s # << >>
      [] v.kind = "int" -> v.n # 0
      [] v.kind = "bool" -> v.n = 1
      [] OTHER -> FALSE

\* value is not None and value != ""
Present(v) == v # None /\ v # StrV(<< >>)

-----------------------------------------------------------------------------
(* Sequences *)

Range(s) == {s[i] : i \in 1..Len(s)}

Indices(s) == Tuple([i \in 1..Len(s) |-> i])

\* the lists of ss joined in order
RECURSIVE Flatten(_)
Flatten(ss) == IF ss = << >> THEN << >> ELSE ss[1] \o Flatten(Tail(ss))

\* every element kept, repeated ones too
KeepAll(s) == s

\* list(dict.fromkeys(s)): the first occurrence of each element, in order
Dedup(s) ==
    LET first == SelectSeq(Indices(s), LAMBDA i : \A j \in 1..(i - 1) : s[j] # s[i])
    IN Tuple([k \in 1..Len(first) |-> s[first[k]]])

\* the list left in the order it has
Unsorted(s) == s

\* sorted(s) for a list of strings: element i goes to the place after the
\* elements smaller than it and the equal ones that precede it
SortedStrs(s) ==
    LET place == Tuple([i \in 1..Len(s) |->
                     Cardinality({j \in 1..Len(s) :
                                     \/ StrLess(s[j], s[i])
                                     \/ s[j] = s[i] /\ j < i}) + 1])
    IN Tuple([r \in 1..Len(s) |-> s[CHOOSE i \in 1..Len(s) : place[i] = r]])

-----------------------------------------------------------------------------
(* Field inference helpers of KetryxDataExtractor *)

RICH_TEXT_FIELD_PATTERNS ==
    { << "d", "e", "s", "c", "r", "i", "p", "t", "i", "o", "n" >>,
      << "r", "a", "t", "i", "o", "n", "a", "l", "e" >>,
      << "n", "o", "t", "e", "s" >>,
      << "c", "o", "n", "t", "e", "n", "t" >>,
      << "d", "e", "t", "a", "i", "l", "s" >>,
      << "s", "u", "m", "m", "a", "r", "y" >>,
      << "c", "o", "m", "m", "e", "n", "t" >>,
      << "j", "u", "s", "t", "i", "f", "i", "c", "a", "t", "i", "o", "n" >>,
      << "a", "n", "a", "l", "y", "s", "i", "s" >>,
      << "r", "e", "s", "o", "l", "u", "t", "i", "o", "n" >>,
      << "r", "o", "o", "t", "_", "c", "a", "u", "s", "e" >>,
      << "i", "m", "p", "a", "c", "t" >>,
      << "m", "i", "t", "i", "g", "a", "t", "i", "o", "n" >>,
      << "v", "e", "r", "i", "f", "i", "c", "a", "t", "i", "o", "n" >>,
      << "a", "c", "c", "e", "p", "t", "a", "n", "c", "e", "_",
         "c", "r", "i", "t", "e", "r", "i", "a" >> }

html_indicators ==
    { << "<", "p", ">" >>,
      << "<", "u", "l", ">" >>,
      << "<", "o", "l", ">" >>,
      << "<", "l", "i", ">" >>,
      << "<", "s", "t", "r", "o", "n", "g", ">" >>,
      << "<", "e", "m", ">" >>,
      << "<", "b", "r" >>,
      << "<", "d", "i", "v", ">" >>,
      << "<", "s", "p", "a", "n", ">" >> }

\* name.replace(" ", "_")
_normalize_field_name(name) == ReplaceChar(name, " ", "_")

\* field_name.lower().replace("_", " ")
lower_name(field_name) == ReplaceChar(Lower(field_name), "_", " ")

\* a value among values[:10] is a string holding a tag or longer than 500
ValueLooksRich(values) ==
    \E i \in 1..Min(10, Len(values)) :
        /\ IsStr(values[i])
        /\ \/ \E tag \in html_indicators : Contains(values[i].s, tag)
           \/ Len(values[i].s) > 500

_is_rich_text_field(field_name, values) ==
    LET lower == lower_name(field_name)
    IN \/ \E pattern \in RICH_TEXT_FIELD_PATTERNS : Contains(lower, pattern)
       \/ ValueLooksRich(values)

\* the chain with the date hints looked at before the number hint
ResolveDateFirst(field_key, values, types) ==
    IF _is_rich_text_field(field_key, values) THEN "richText"
    ELSE IF "date" \in types \/ "datetime" \in types THEN "datetime"
    ELSE IF "number" \in types THEN "number"
    ELSE IF "boolean" \in types THEN "boolean"
    ELSE "string"

\* the if/elif chain that picks data_type from the rich-text test and the hints
ResolveDataType(field_key, values, types) ==
    IF _is_rich_text_field(field_key, values) THEN "richText"
    ELSE IF "number" \in types THEN "number"
    ELSE IF "date" \in types \/ "datetime" \in types THEN "datetime"
    ELSE IF "boolean" \in types THEN "boolean"
    ELSE "string"

fieldValuePrefix == << "f", "i", "e", "l", "d", "V", "a", "l", "u", "e", "." >>

fieldContentPrefix ==
    << "~", "~", "f", "i", "e", "l", "d", "C", "o", "n", "t", "e", "n", "t", "." >>

\* the name alone as the plain path, whatever the flag and the type
PlainPathOnly(field_name, is_custom, data_type) == [plain |-> field_name]

_compute_access_paths(field_name, is_custom, data_type) ==
    LET normalized == _normalize_field_name(field_name)
    IN IF is_custom
       THEN IF data_type = "richText"
            THEN [plain |-> fieldValuePrefix \o normalized,
                  rich |-> fieldContentPrefix \o normalized]
            ELSE [plain |-> fieldValuePrefix \o normalized]
       ELSE IF data_type = "richText"
            THEN [plain |-> field_name, rich |-> << "~", "~" >> \o field_name]
            ELSE [plain |-> field_name]

\* the list "truncated": strings cut to MAX_STRING_LENGTH, other values str()'d
Truncated(values) ==
    Tuple([i \in 1..Len(values) |->
        IF IsStr(values[i]) THEN Take(values[i].s, MAX_STRING_LENGTH)
        ELSE PyStr(values[i])])

\* returns << unique values, example values >>
_compute_value_samples(values, data_type) ==
    IF values = << >> THEN << << >>, << >> >>
    ELSE IF data_type = "richText" THEN << << >>, << >> >>
    ELSE LET unique == Dedup(Truncated(values))
         IN IF Len(unique) <= MAX_UNIQUE_VALUES
            THEN << SortedStrs(unique), << >> >>
            ELSE << << >>, Take(unique, MAX_SAMPLE_VALUES) >>

\* the text as it is, whatever its length
Untruncated(text, max_len) == text

_truncate(text, max_len) ==
    IF Len(text) <= max_len THEN text
    ELSE Take(text, max_len - 3) \o << ".", ".", "." >>

-----------------------------------------------------------------------------
(* Records as the source returns them *)

\* a dict record; an attribute that is absent is None
Rec(title, revision, isControlled, createdAt, fields, relations) ==
    [isdict |-> TRUE, title |-> title, revision |-> revision,
     isControlled |-> isControlled, createdAt |-> createdAt,
     fields |-> fields, relations |-> relations]

\* a record that is not a dict (a string, a number, a list)
JunkRecord ==
    [isdict |-> FALSE, title |-> None, revision |-> None, isControlled |-> None,
     createdAt |-> None, fields |-> << >>, relations |-> << >>]

\* an entry of record["fields"]; label << >> is an absent or empty label,
\* value None an absent value, type "absent" an absent type hint
FieldObj(label, value, type) ==
    [isdict |-> TRUE, label |-> label, value |-> value, type |-> type]

JunkEntry == [isdict |-> FALSE, label |-> << >>, value |-> None, type |-> "absent"]

\* field_obj.get("type", "string")
FieldType(field_obj) == IF field_obj.type = "absent" THEN "string" ELSE field_obj.type

\* an entry of record["relations"]; type None is an absent relation type
RelObj(type) == [isdict |-> TRUE, type |-> type]

JunkRel == [isdict |-> FALSE, type |-> None]

UNKNOWN == << "U", "N", "K", "N", "O", "W", "N" >>

\* relation.get("type", "UNKNOWN")
RelType(relation) == IF relation.type = None THEN UNKNOWN ELSE relation.type.s

sTitle == << "t", "i", "t", "l", "e" >>
sRevision == << "r", "e", "v", "i", "s", "i", "o", "n" >>
sIsControlled == << "i", "s", "C", "o", "n", "t", "r", "o", "l", "l", "e", "d" >>
sCreatedAt == << "c", "r", "e", "a", "t", "e", "d", "A", "t" >>
sStatus == << "S", "t", "a", "t", "u", "s" >>
sID == << "I", "D" >>

standard_fields == << sTitle, sRevision, sIsControlled, sCreatedAt >>

\* record.get(field_name) for a standard field
StandardValue(record, field_name) ==
    CASE field_name = sTitle -> record.title
      [] field_name = sRevision -> record.revision
      [] field_name = sIsControlled -> record.isControlled
      [] OTHER -> record.createdAt

-----------------------------------------------------------------------------
(* _analyze_all_fields: the accumulators *)

\* index of key in the ordered dict d (a sequence of entries with a key), or 0
IndexOf(d, key) ==
    IF \E i \in 1..Len(d) : d[i].key = key
    THEN CHOOSE i \in 1..Len(d) : d[i].key = key
    ELSE 0

HasKey(d, key) == IndexOf(d, key) # 0

\* what the "Standard fields" loop observes on one record, in order
StandardObs(record) ==
    LET seen == SelectSeq(standard_fields,
                          LAMBDA field_name : Present(StandardValue(record, field_name)))
    IN Tuple([k \in 1..Len(seen) |->
          [key |-> seen[k], value |-> StandardValue(record, seen[k]),
           types |-> {}, isCustom |-> FALSE, label |-> seen[k]]])

\* what the "Custom fields" loop observes on one record, in order
CustomObs(record) ==
    LET seen == SelectSeq(record.fields,
                          LAMBDA field_obj : /\ field_obj.isdict
                                             /\ field_obj.label # << >>
                                             /\ Present(field_obj.value))
    IN Tuple([k \in 1..Len(seen) |->
          [key |-> _normalize_field_name(seen[k].label), value |-> seen[k].value,
           types |-> {FieldType(seen[k])}, isCustom |-> TRUE,
           label |-> seen[k].label]])

\* every write to field_data the loop over the records makes, in order
Observations(records) ==
    Flatten(Tuple([k \in 1..Len(records) |->
                IF records[k].isdict
                THEN StandardObs(records[k]) \o CustomObs(records[k])
                ELSE << >>]))

\* field_data after the loop: the defaultdict makes an entry at a key's first
\* write; values and types accumulate, isCustom and label are overwritten
CollectFieldData(records) ==
    LET obs == Observations(records)
        keys == Dedup(Tuple([i \in 1..Len(obs) |-> obs[i].key]))
    IN Tuple([k \in 1..Len(keys) |->
          LET mine == SelectSeq(obs, LAMBDA o : o.key = keys[k])
          IN [key |-> keys[k],
              values |-> Tuple([i \in 1..Len(mine) |-> mine[i].value]),
              types |-> UNION {mine[i].types : i \in 1..Len(mine)},
              isCustom |-> mine[Len(mine)].isCustom,
              label |-> mine[Len(mine)].label]])

\* fill_rate = len(values) / len(records) * 100, kept as a fraction
FillRate(values, records) == [num |-> Len(values) * 100, den |-> Len(records)]

\* the FieldInfo built from one entry of field_data
BuildFieldInfo(data, records) ==
    LET data_type == ResolveDataType(data.key, data.values, data.types)
        samples == _compute_value_samples(data.values, data_type)
    IN [key |-> data.key,
        label |-> data.label,
        dataType |-> data_type,
        isCustomField |-> data.isCustom,
        access |-> _compute_access_paths(data.key, data.isCustom, data_type),
        uniqueValues |-> samples[1],
        exampleValues |-> samples[2],
        fillRate |-> FillRate(data.values, records)]

\* type_info.fields after the "Build FieldInfo objects" loop
BuildFields(records) ==
    LET field_data == CollectFieldData(records)
        kept == SelectSeq(field_data, LAMBDA data : data.values # << >>)
    IN Tuple([i \in 1..Len(kept) |-> BuildFieldInfo(kept[i], records)])

-----------------------------------------------------------------------------
(* _analyze_all_fields: statuses *)

\* a == b between two JSON values (a bool equals the int of the same value)
PyEq(a, b) ==
    IF a.kind \in {"int", "bool"} /\ b.kind \in {"int", "bool"}
    THEN a.n = b.n
    ELSE a = b

\* the records before the first one that is not a dict
DictPrefix(records) ==
    IF \A i \in 1..Len(records) : records[i].isdict THEN records
    ELSE SubSeq(records, 1,
                (CHOOSE i \in 1..Len(records) :
                    /\ ~records[i].isdict
                    /\ \A j \in 1..(i - 1) : records[j].isdict) - 1)

\* the values the "Extract statuses" loop looks at on one record, in order
StatusValues(record) ==
    LET seen == SelectSeq(record.fields,
                          LAMBDA field_obj : /\ field_obj.isdict
                                             /\ field_obj.label = sStatus
                                             /\ Truthy(field_obj.value))
    IN Tuple([k \in 1..Len(seen) |-> seen[k].value])

\* statuses after the loop over records that are all dicts: a value is
\* appended unless an equal one is already in the list
StatusesOfRecords(statuses, records) ==
    LET all == statuses \o Flatten(Tuple([k \in 1..Len(records) |->
                                       StatusValues(records[k])]))
        first == SelectSeq(Indices(all),
                           LAMBDA i : \A j \in 1..(i - 1) : ~PyEq(all[j], all[i]))
    IN Tuple([k \in 1..Len(first) |-> all[first[k]]])

\* record.get("fields") on a record that is not a dict raises AttributeError
StatusLoopRaises(records) == \E i \in 1..Len(records) : ~records[i].isdict

\* sorted() raises TypeError when it has to compare a str with a number
SortRaises(statuses) ==
    \E i, j \in 1..Len(statuses) :
        (statuses[i].kind = "str") # (statuses[j].kind = "str")

\* a < b between two values of comparable kinds
ValueLess(a, b) == IF a.kind = "str" THEN StrLess(a.s, b.s) ELSE a.n < b.n

\* the statuses left in the order they were collected in
AsCollected(s) == s

\* sorted(statuses)
SortedValues(s) ==
    LET place == Tuple([i \in 1..Len(s) |->
                     Cardinality({j \in 1..Len(s) :
                                     \/ ValueLess(s[j], s[i])
                                     \/ ~ValueLess(s[i], s[j]) /\ j < i}) + 1])
    IN Tuple([r \in 1..Len(s) |-> s[CHOOSE i \in 1..Len(s) : place[i] = r]])

-----------------------------------------------------------------------------
(* _build_sample_records *)

\* sample[key] = value on the ordered dict sample
SetKey(sample, key, value) ==
    LET i == IndexOf(sample, key)
    IN IF i = 0 THEN Append(sample, [key |-> key, value |-> value])
       ELSE [sample EXCEPT ![i] = [key |-> key, value |-> value]]

\* fields[normalized].dataType == "richText", for normalized in fields
IsRichIn(fields, normalized) ==
    \E i \in 1..Len(fields) :
        fields[i].key = normalized /\ fields[i].dataType = "richText"

\* the "Custom fields" loop of one record; st is [sample, custom_count]
RECURSIVE SampleCustom(_, _, _, _)
SampleCustom(st, record_fields, fields, k) ==
    IF k > Len(record_fields) \/ st.custom_count >= 4 THEN st.sample
    ELSE LET field_obj == record_fields[k]
             normalized == _normalize_field_name(field_obj.label)
         IN SampleCustom(
                IF /\ field_obj.isdict
                   /\ ~IsRichIn(fields, normalized)
                   /\ field_obj.label # << >>
                   /\ Truthy(field_obj.value)
                THEN [sample |-> SetKey(st.sample, normalized,
                                        _truncate(PyStr(field_obj.value), 60)),
                      custom_count |-> st.custom_count + 1]
                ELSE st,
                record_fields, fields, k + 1)

\* the sample dict of one dict record
SampleOf(record, fields) ==
    LET titled == IF Truthy(record.title)
                  THEN << [key |-> sTitle,
                           value |-> _truncate(PyStr(record.title), 80)] >>
                  ELSE << >>
    IN SampleCustom([sample |-> titled, custom_count |-> 0],
                    record.fields, fields, 1)

RECURSIVE SamplesOf(_, _)
SamplesOf(records, fields) ==
    IF records = << >> THEN << >>
    ELSE LET sample == IF records[1].isdict THEN SampleOf(records[1], fields)
                       ELSE << >>
         IN (IF sample # << >> THEN << sample >> ELSE << >>)
            \o SamplesOf(Tail(records), fields)

_build_sample_records(records, fields) ==
    SamplesOf(Take(records, MAX_SAMPLE_RECORDS), fields)

-----------------------------------------------------------------------------
(* _fetch_records_by_type: the short name *)

\* str.isalpha()
IsAlpha(s) == s # << >> /\ \A i \in 1..Len(s) : s[i] \in Letters

\* s.split("-")[0]
SplitFirst(s) ==
    IF \E i \in 1..Len(s) : s[i] = "-"
    THEN SubSeq(s, 1, (CHOOSE i \in 1..Len(s) :
                          s[i] = "-" /\ \A j \in 1..(i - 1) : s[j] # "-") - 1)
    ELSE s

\* the prefix one field entry yields, or << >> when it yields none
PrefixOfEntry(field_obj) ==
    LET doc_id == field_obj.value
        prefix == SplitFirst(PyStr(doc_id))
    IN IF /\ field_obj.isdict
          /\ field_obj.label = sID
          /\ Truthy(doc_id)
          /\ Contains(PyStr(doc_id), << "-" >>)
          /\ IsAlpha(prefix)
          /\ 1 <= Len(prefix) /\ Len(prefix) <= 6
       THEN prefix
       ELSE << >>

\* the inner loop: the first accepted prefix among one record's entries
RECURSIVE PrefixOfFields(_)
PrefixOfFields(fields) ==
    IF fields = << >> THEN << >>
    ELSE IF PrefixOfEntry(fields[1]) # << >> THEN PrefixOfEntry(fields[1])
    ELSE PrefixOfFields(Tail(fields))

\* the outer loop: the first record that yields a prefix
RECURSIVE PrefixOfRecords(_)
PrefixOfRecords(records) ==
    IF records = << >> THEN << >>
    ELSE LET here == IF records[1].isdict THEN PrefixOfFields(records[1].fields)
                     ELSE << >>
         IN IF here # << >> THEN here ELSE PrefixOfRecords(Tail(records))

\* the scan over every record of the list
InferFromAll(records) == PrefixOfRecords(records)

\* "Infer short name from docId patterns", over records[:20]
InferShortName(records) == PrefixOfRecords(Take(records, 20))

-----------------------------------------------------------------------------
(* _analyze_relations *)

\* every write to relation_data the loops make for one type, in order
RelationObs(type_name, records) ==
    Flatten(Tuple([k \in 1..Len(records) |->
                IF records[k].isdict
                THEN LET seen == SelectSeq(records[k].relations,
                                           LAMBDA relation : relation.isdict)
                     IN Tuple([i \in 1..Len(seen) |->
                           [key |-> RelType(seen[i]), type_name |-> type_name]])
                ELSE << >>]))

\* relation_data after the loops: per rel_type, fromTypes.append(type_name)
\* and count += 1 at each write, an entry being made at the first
CollectRelationData(by_type) ==
    LET obs == Flatten(Tuple([k \in 1..Len(by_type) |->
                           RelationObs(by_type[k].key, by_type[k].records)]))
        keys == Dedup(Tuple([i \in 1..Len(obs) |-> obs[i].key]))
    IN Tuple([k \in 1..Len(keys) |->
          LET mine == SelectSeq(obs, LAMBDA o : o.key = keys[k])
          IN [key |-> keys[k],
              fromTypes |-> Tuple([i \in 1..Len(mine) |-> mine[i].type_name]),
              toTypes |-> << >>,
              count |-> Len(mine)]])

\* f"relations | where('type', '{rel_type}')"
AccessPattern(rel_type) ==
    << "relations | where('type', '", rel_type, "')" >>

\* self.relation_types after the loop over relation_data
BuildRelationTypes(by_type) ==
    LET relation_data == CollectRelationData(by_type)
    IN Tuple([i \in 1..Len(relation_data) |->
          [key |-> relation_data[i].key,
           fromTypes |-> relation_data[i].fromTypes,
           toTypes |-> relation_data[i].toTypes,
           count |-> relation_data[i].count,
           accessPattern |-> AccessPattern(relation_data[i].key)]])

\* every relation of the catalog, whatever the type
EveryRelation(type_name, rel_types) ==
    Tuple([i \in 1..Len(rel_types) |->
          [relation |-> rel_types[i].key,
           accessPattern |-> AccessPattern(rel_types[i].key)]])

\* the list "outgoing" of one type
Outgoing(type_name, rel_types) ==
    LET mine == SelectSeq(rel_types,
                          LAMBDA rel_info : type_name \in Range(rel_info.fromTypes))
    IN Tuple([i \in 1..Len(mine) |->
          [relation |-> mine[i].key,
           accessPattern |-> AccessPattern(mine[i].key)]])

-----------------------------------------------------------------------------
(* _analyze_all_fields, one type after the other *)

\* the body of the loop for one type, given the fields it builds and the
\* statuses it collects; error is the exception it raises, if any
AnalyzeWith(type_info, records, fields, collected) ==
    IF StatusLoopRaises(records)
    THEN [info |-> [type_info EXCEPT !.fields = fields, !.statuses = collected],
          error |-> "AttributeError"]
    ELSE IF SortRaises(collected)
    THEN [info |-> [type_info EXCEPT !.fields = fields, !.statuses = collected],
          error |-> "TypeError"]
    ELSE [info |-> [type_info EXCEPT
                       !.fields = fields,
                       !.statuses = SortedValues(collected),
                       !.sampleRecords = _build_sample_records(records, fields)],
          error |-> ""]

AnalyzeType(type_info, records) ==
    AnalyzeWith(type_info, records, BuildFields(records),
                StatusesOfRecords(type_info.statuses, DictPrefix(records)))

RECURSIVE AnalyzeFrom(_, _, _)

\* the loop once the body of entry k is over for the type at index i: it
\* stops at an exception and goes on to entry k + 1 otherwise
AfterType(types, by_type, k, i, done) ==
    IF done.error # ""
    THEN [types |-> [types EXCEPT ![i] = done.info], error |-> done.error]
    ELSE AnalyzeFrom([types EXCEPT ![i] = done.info], by_type, k + 1)

\* the loop over all_records_by_type from entry k on
AnalyzeFrom(types, by_type, k) ==
    IF k > Len(by_type) THEN [types |-> types, error |-> ""]
    ELSE IF by_type[k].records = << >> \/ ~HasKey(types, by_type[k].key)
    THEN AnalyzeFrom(types, by_type, k + 1)
    ELSE AfterType(types, by_type, k, IndexOf(types, by_type[k].key),
                   AnalyzeType(types[IndexOf(types, by_type[k].key)],
                               by_type[k].records))

-----------------------------------------------------------------------------
(* to_dict and _build_output *)

\* f"{fill_rate:.0f}%": the nearest integer, a tie going to the even one
FormatPercent(fill_rate) ==
    LET q == fill_rate.num \div fill_rate.den
        r == fill_rate.num % fill_rate.den
        rounded == IF 2 * r < fill_rate.den THEN q
                   ELSE IF 2 * r > fill_rate.den THEN q + 1
                   ELSE IF q % 2 = 0 THEN q ELSE q + 1
    IN IntStr(rounded) \o << "%" >>

\* self.fillRate < 100
BelowFull(fill_rate) == fill_rate.num < 100 * fill_rate.den

\* FieldInfo.to_dict
FieldInfo_to_dict(info) ==
    [label |-> info.label, dataType |-> info.dataType, access |-> info.access]
    @@ (IF info.isCustomField THEN [isCustomField |-> TRUE] ELSE << >>)
    @@ (IF info.uniqueValues # << >> THEN [uniqueValues |-> info.uniqueValues]
        ELSE IF info.exampleValues # << >>
        THEN [exampleValues |-> info.exampleValues]
        ELSE << >>)
    @@ (IF BelowFull(info.fillRate)
        THEN [fillRate |-> FormatPercent(info.fillRate)]
        ELSE << >>)

\* ItemTypeInfo.to_dict
ItemTypeInfo_to_dict(info) ==
    [kqlQuery |-> info.kqlQuery,
     count |-> info.count,
     fields |-> Tuple([i \in 1..Len(info.fields) |->
                    [key |-> info.fields[i].key,
                     value |-> FieldInfo_to_dict(info.fields[i])]]),
     sampleRecords |-> info.sampleRecords]
    @@ (IF info.shortName # << >> THEN [shortName |-> info.shortName] ELSE << >>)
    @@ (IF info.statuses # << >> THEN [statuses |-> info.statuses] ELSE << >>)
    @@ (IF info.outgoingRelations # << >>
        THEN [outgoingRelations |-> info.outgoingRelations] ELSE << >>)

\* RelationTypeInfo.to_dict; list(set(...)) keeps no order, so a set
RelationTypeInfo_to_dict(info) ==
    [relationType |-> info.key,
     fromTypes |-> Range(info.fromTypes),
     toTypes |-> Range(info.toTypes),
     count |-> info.count,
     accessPattern |-> info.accessPattern]

\* by count descending, the later of two elements of equal count first
SortedLaterFirst(s) ==
    LET place == Tuple([i \in 1..Len(s) |->
                     Cardinality({j \in 1..Len(s) :
                                     \/ s[j].count > s[i].count
                                     \/ s[j].count = s[i].count /\ j > i}) + 1])
    IN Tuple([r \in 1..Len(s) |-> s[CHOOSE i \in 1..Len(s) : place[i] = r]])

\* sorted(s, key=lambda x: x.count, reverse=True): stable, so element i goes
\* after the elements of greater count and the equal ones that precede it
SortedByCountDesc(s) ==
    LET place == Tuple([i \in 1..Len(s) |->
                     Cardinality({j \in 1..Len(s) :
                                     \/ s[j].count > s[i].count
                                     \/ s[j].count = s[i].count /\ j < i}) + 1])
    IN Tuple([r \in 1..Len(s) |-> s[CHOOSE i \in 1..Len(s) : place[i] = r]])

RECURSIVE SumCounts(_)
SumCounts(s) == IF s = << >> THEN 0 ELSE s[1].count + SumCounts(Tail(s))

\* the document _build_output returns (the parts derived from the data)
BuildDocument(types, rel_types, vers) ==
    LET sorted_types == SortedByCountDesc(types)
        sorted_relations == SortedByCountDesc(rel_types)
        shown == Take(sorted_relations, 20)
    IN [version |-> vers.current,
        allVersions |-> vers.all,
        summary |-> [totalItems |-> SumCounts(types),
                     itemTypeCount |-> Len(types),
                     totalRelations |-> SumCounts(rel_types)],
        itemTypes |-> Tuple([i \in 1..Len(sorted_types) |->
                          [key |-> sorted_types[i].key,
                           value |-> ItemTypeInfo_to_dict(sorted_types[i])]]),
        relationTypes |-> Tuple([i \in 1..Len(shown) |->
                              RelationTypeInfo_to_dict(shown[i])])]

-----------------------------------------------------------------------------
(* What the source may return: the inputs of the model *)

sRequirement == << "R", "e", "q", "u", "i", "r", "e", "m", "e", "n", "t" >>
sTestCase == << "T", "e", "s", "t", " ", "C", "a", "s", "e" >>
sUnknown == << "U", "n", "k", "n", "o", "w", "n" >>
sRootCause == << "R", "o", "o", "t", " ", "C", "a", "u", "s", "e" >>
sroot_cause == << "r", "o", "o", "t", "_", "c", "a", "u", "s", "e" >>
sPriority == << "P", "r", "i", "o", "r", "i", "t", "y" >>
sSteps == << "S", "t", "e", "p", "s" >>
sOpen == << "O", "p", "e", "n" >>
sClosed == << "C", "l", "o", "s", "e", "d" >>
sLogin == << "L", "o", "g", "i", "n" >>
sTests == << "t", "e", "s", "t", "s" >>
sVerifies == << "v", "e", "r", "i", "f", "i", "e", "s" >>

\* two strings of 101 characters that agree on their first 100
Long101a == Rep("a", 100) \o << "b" >>
Long101b == Rep("a", 100) \o << "c" >>

\* a string of 501 characters without markup
Long501 == Rep("a", 501)

sMarkup == << "<", "p", ">", "x" >>

\* the i-th of a family of distinct short strings
Word(i) == << LowerCase[(i % 26) + 1] >> \o NatStr(i)

\* a record with only a title, dynamic fields and relations
Plain(title, fields, relations) == Rec(title, None, None, None, fields, relations)

RecA ==
    Plain(StrV(sLogin),
          << FieldObj(sStatus, StrV(sOpen), "string"),
             FieldObj(sID, StrV(<< "R", "E", "Q", "-", "1" >>), "absent") >>,
          << RelObj(StrV(sTests)) >>)

RecB ==
    Rec(None, IntV(2), BoolV(FALSE), StrV(<< "2", "0", "2", "4" >>),
        << FieldObj(sStatus, StrV(sClosed), "string"),
           FieldObj(sRootCause, StrV(<< "x" >>), "string"),
           FieldObj(sroot_cause, StrV(<< "y" >>), "string"),
           FieldObj(sTitle, StrV(<< "T" >>), "string") >>,
        << RelObj(StrV(sVerifies)), RelObj(None), JunkRel >>)

RecC ==
    Plain(StrV(sLogin),
          << JunkEntry,
             FieldObj(<< >>, StrV(<< "x" >>), "string"),
             FieldObj(sStatus, StrV(sOpen), "string"),
             FieldObj(sStatus, StrV(sOpen), "string"),
             FieldObj(sPriority, IntV(0), "number"),
             FieldObj(sPriority, IntV(3), "number") >>,
          << RelObj(StrV(sTests)), RelObj(StrV(sTests)) >>)

SmallRecords == {RecA, RecB, RecC}

\* every list of 1..n elements of S
ListsUpTo(S, n) == UNION {[1..k -> S] : k \in 1..n}

\* three Requirement records with Status Open, Open, Closed
ScenarioStatus ==
    << Plain(StrV(<< "R", "1" >>), << FieldObj(sStatus, StrV(sOpen), "string") >>, << >>),
       Plain(StrV(<< "R", "2" >>), << FieldObj(sStatus, StrV(sOpen), "string") >>, << >>),
       Plain(StrV(<< "R", "3" >>), << FieldObj(sStatus, StrV(sClosed), "string") >>, << >>) >>

\* two records whose Status values differ only after 100 characters
ScenarioLongStatus ==
    << Plain(None, << FieldObj(sStatus, StrV(Long101a), "string") >>, << >>),
       Plain(None, << FieldObj(sStatus, StrV(Long101b), "string") >>, << >>) >>

\* a Status that is a string on one record and a number on the next
ScenarioMixedStatus ==
    << Plain(None, << FieldObj(sStatus, StrV(sOpen), "string") >>, << >>),
       Plain(None, << FieldObj(sStatus, IntV(7), "number") >>, << >>) >>

\* one record whose Steps value has 501 characters and no markup
ScenarioLongSteps ==
    << Plain(None, << FieldObj(sSteps, StrV(Long501), "string") >>, << >>) >>

\* n records with a Steps field; only record p holds markup
HtmlAt(n, p) ==
    Tuple([i \in 1..n |->
        Plain(None,
              << FieldObj(sSteps, StrV(IF i = p THEN sMarkup ELSE << "v" >>), "string") >>,
              << >>)])

\* n records, record i with Status Word(n - i): n distinct values, descending
ManyStatus(n) ==
    Tuple([i \in 1..n |->
        Plain(None, << FieldObj(sStatus, StrV(Word(n - i)), "string") >>, << >>)])

\* the relation name of number i
RelName(i) == << "R" >> \o NatStr(i)

\* one record with n relation entries of n distinct names, then one whose
\* relation repeats the last of them
ManyRelations(n) ==
    << Plain(None, << >>, Tuple([i \in 1..n |-> RelObj(StrV(RelName(i)))])),
       Plain(None, << >>, << RelObj(StrV(RelName(n))) >>) >>

\* four records: one with a title of 94 characters that holds markup and
\* seven entries, of which one is rich text, one is 0 and one is long; one
\* with two ID entries; one with only a rich-text entry; one more
ScenarioWide ==
    << Plain(StrV(sMarkup \o Rep("t", 90)),
             << FieldObj(sID, StrV(<< "1", "2", "-", "3" >>), "string"),
                FieldObj(sSteps, StrV(sMarkup), "string"),
                FieldObj(sPriority, IntV(0), "number"),
                FieldObj(sStatus, StrV(Long101a), "string"),
                FieldObj(sRootCause, StrV(<< "x" >>), "string"),
                FieldObj(sroot_cause, StrV(<< "y" >>), "string"),
                FieldObj(sTitle, StrV(<< "T" >>), "string") >>,
             << >>),
       Plain(None,
             << FieldObj(sID, StrV(<< "T", "C", "-", "1", "-", "2" >>), "string"),
                FieldObj(sID, StrV(<< "R", "E", "Q", "-", "9" >>), "string") >>,
             << >>),
       Plain(None, << FieldObj(sSteps, StrV(sMarkup), "string") >>, << >>),
       Plain(StrV(<< "R", "4" >>), << FieldObj(sStatus, StrV(sClosed), "string") >>,
             << >>) >>

\* n records of which only the last carries an ID entry
LateID(n) ==
    Tuple([i \in 1..n |->
        Plain(None,
              << IF i = n THEN FieldObj(sID, StrV(<< "R", "E", "Q", "-", "1" >>), "string")
                 ELSE FieldObj(sStatus, StrV(sOpen), "string") >>,
              << >>)])

ScenarioLists ==
    {ScenarioStatus, ScenarioLongStatus, ScenarioMixedStatus, ScenarioLongSteps,
     ScenarioWide,
     << JunkRecord >>, << RecA, JunkRecord >>, << JunkRecord, RecB >>}
    \cup {LateID(n) : n \in {20, MaxScan}}
    \cup {HtmlAt(n, p) : n \in {MaxHtmlLen}, p \in {1, 10, 11} \cap 1..MaxHtmlLen}
    \cup {ManyStatus(n) : n \in {MAX_UNIQUE_VALUES, MaxGen}}
    \cup {ManyRelations(n) : n \in {20, MaxRelNames}}

\* the record lists a full fetch may return
RecordLists == ListsUpTo(SmallRecords, MaxRecs) \cup ScenarioLists

\* what query_records returns: nothing (ok FALSE), or a dict with "records"
\* and perhaps "total"
FailedResponse == [ok |-> FALSE, records |-> << >>, total |-> None]

Responses ==
    {FailedResponse}
    \cup {[ok |-> TRUE, records |-> << >>, total |-> None]}
    \cup {[ok |-> TRUE, records |-> r, total |-> None] : r \in RecordLists}
    \cup {[ok |-> TRUE, records |-> r, total |-> IntV(1000)] :
             r \in ListsUpTo(SmallRecords, 1)}

\* a record of get_item_records: a dict with a type (<< >> when it has none),
\* or something that is not a dict
Tagged(type) == [isdict |-> TRUE, type |-> type]

JunkTagged == [isdict |-> FALSE, type |-> << >>]

\* an entry of the item listing: a dict with perhaps an id, and what
\* get_item_records returns for it (nothing, or its records)
Item(has_id, resp_ok, records) ==
    [isdict |-> TRUE, has_id |-> has_id, resp_ok |-> resp_ok, records |-> records]

JunkItem ==
    [isdict |-> FALSE, has_id |-> FALSE, resp_ok |-> FALSE, records |-> << >>]

ItemShapes ==
    {JunkItem,
     Item(FALSE, TRUE, << Tagged(sRequirement) >>),
     Item(TRUE, FALSE, << >>),
     Item(TRUE, TRUE, << Tagged(sRequirement), JunkTagged, Tagged(<< >>) >>),
     Item(TRUE, TRUE, << Tagged(sTestCase), Tagged(sUnknown) >>)}

\* what get_items returns: nothing (ok FALSE) or a dict with "items"
ItemsResponses ==
    {[ok |-> FALSE, items |-> << >>]}
    \cup {[ok |-> TRUE, items |-> << >>]}
    \cup {[ok |-> TRUE, items |-> l] : l \in ListsUpTo(ItemShapes, MaxItems)}

\* what get_versions returns: nothing, or a dict with "versions"
Version(id, isReleased) == [id |-> id, isReleased |-> isReleased]

VersionsResponses ==
    {[ok |-> FALSE, versions |-> << >>],
     [ok |-> TRUE, versions |-> << Version("v1", TRUE), Version("v2", FALSE) >>]}

\* every order in which the elements of S can be listed
Orderings(S) == {s \in [1..Cardinality(S) -> S] : Range(s) = S}

-----------------------------------------------------------------------------
(* extract(), step by step *)

Init ==
    /\ pc = "get_project"
    /\ arg = << >>
    /\ ret = << >>
    /\ item_types = << >>
    /\ all_records_by_type = << >>
    /\ relation_types = << >>
    /\ versions = [all |-> << >>, current |-> None]
    /\ responses = << >>
    /\ output = << >>
    /\ error = ""
    /\ AgentIdle

\* 1. Get project metadata: no project raises RuntimeError
GetProject ==
    /\ pc = "get_project"
    /\ \E project_ok \in BOOLEAN :
          /\ pc' = IF project_ok THEN "get_versions" ELSE "raised"
          /\ error' = IF project_ok THEN "" ELSE "RuntimeError"
    /\ UNCHANGED <<arg, ret, item_types, all_records_by_type, relation_types,
                   versions, responses, output>>
    /\ UNCHANGED agent_vars

\* released[-1]["id"] if released else versions[-1]["id"], with no version_id given
AutoSelect(all) ==
    LET released == SelectSeq(all, LAMBDA v : v.isReleased)
    IN IF all = << >> THEN None
       ELSE IF released # << >> THEN released[Len(released)]
       ELSE all[Len(all)]

\* 2. Get versions; a failed call leaves the list empty
GetVersions ==
    /\ pc = "get_versions"
    /\ \E versions_response \in VersionsResponses :
          LET all == IF versions_response.ok THEN versions_response.versions
                     ELSE << >>
          IN versions' = [all |-> all, current |-> AutoSelect(all)]
    /\ pc' = "discover"
    /\ UNCHANGED <<arg, ret, item_types, all_records_by_type, relation_types,
                   responses, output, error>>
    /\ UNCHANGED agent_vars

\* the type tags one sampled item adds to discovered_types
TagsOfItem(item) ==
    IF item.isdict /\ item.has_id /\ item.resp_ok
    THEN {item.records[i].type :
             i \in {j \in 1..Len(item.records) :
                       item.records[j].isdict /\ item.records[j].type # << >>}}
    ELSE {}

\* f'type:"{type_name}"' if " " in type_name else f"type:{type_name}"
KqlQuery(type_name) ==
    IF Contains(type_name, << " " >>)
    THEN << "t", "y", "p", "e", ":", "\"" >> \o type_name \o << "\"" >>
    ELSE << "t", "y", "p", "e", ":" >> \o type_name

NewItemTypeInfo(type_name) ==
    [key |-> type_name, kqlQuery |-> KqlQuery(type_name), shortName |-> << >>,
     count |-> 0, statuses |-> << >>, fields |-> << >>,
     sampleRecords |-> << >>, outgoingRelations |-> << >>]

\* 3. _discover_types_from_items; a set is iterated in no particular order
DiscoverTypes ==
    /\ pc = "discover"
    /\ \E items_response \in ItemsResponses :
          LET items == IF items_response.ok THEN items_response.items ELSE << >>
              sampled == Take(items, 50)
              discovered_types ==
                  UNION {TagsOfItem(sampled[i]) : i \in 1..Len(sampled)}
              kept == {type_name \in discovered_types :
                          type_name # << >> /\ type_name # sUnknown}
          IN \E order \in Orderings(kept) :
                item_types' = Tuple([i \in 1..Len(order) |-> NewItemTypeInfo(order[i])])
    /\ pc' = "fetch"
    /\ UNCHANGED <<arg, ret, all_records_by_type, relation_types, versions,
                   responses, output, error>>
    /\ UNCHANGED agent_vars

\* a type kept for any reply that is not a failure
KeepsAnswered(response) == response.ok

\* whether the loop of _fetch_records_by_type keeps the type
Keeps(response) == response.ok /\ response.records # << >>

\* the type_info of a kept type after its iteration
Fetched(type_info, response) ==
    [type_info EXCEPT
        !.count = IF response.total = None THEN Len(response.records)
                  ELSE response.total.n,
        !.shortName = InferShortName(response.records)]

\* self.item_types once the types_to_remove are deleted
TypesAfterFetch(types, replies) ==
    LET kept == SelectSeq(Indices(types),
                          LAMBDA i : Keeps(replies[i]))
    IN Tuple([j \in 1..Len(kept) |-> Fetched(types[kept[j]], replies[kept[j]])])

\* self.all_records_by_type after the loop
RecordsAfterFetch(types, replies) ==
    LET kept == SelectSeq(Indices(types),
                          LAMBDA i : Keeps(replies[i]))
    IN Tuple([j \in 1..Len(kept) |->
          [key |-> types[kept[j]].key, records |-> replies[kept[j]].records]])

\* 4. _fetch_records_by_type, one query_records call per discovered type
FetchRecordsByType ==
    /\ pc = "fetch"
    /\ \E replies \in [1..Len(item_types) -> Responses] :
          /\ item_types' = TypesAfterFetch(item_types, replies)
          /\ all_records_by_type' = RecordsAfterFetch(item_types, replies)
          /\ responses' = Tuple([i \in 1..Len(item_types) |->
                                    [key |-> item_types[i].key,
                                     response |-> replies[i]]])
    /\ pc' = "analyze_fields"
    /\ UNCHANGED <<arg, ret, relation_types, versions, output, error>>
    /\ UNCHANGED agent_vars

\* 5. _analyze_all_fields
AnalyzeAllFields ==
    /\ pc = "analyze_fields"
    /\ \E done \in {AnalyzeFrom(item_types, all_records_by_type, 1)} :
          /\ item_types' = done.types
          /\ error' = done.error
          /\ pc' = IF done.error = "" THEN "analyze_relations" ELSE "raised"
    /\ UNCHANGED <<arg, ret, all_records_by_type, relation_types, versions,
                   responses, output>>
    /\ UNCHANGED agent_vars

\* 6. _analyze_relations
AnalyzeRelations ==
    /\ pc = "analyze_relations"
    /\ \E rel_types \in {BuildRelationTypes(all_records_by_type)} :
          /\ relation_types' = rel_types
          /\ item_types' =
                Tuple([i \in 1..Len(item_types) |->
                    [item_types[i] EXCEPT
                        !.outgoingRelations = Outgoing(item_types[i].key, rel_types)]])
    /\ pc' = "build_output"
    /\ UNCHANGED <<arg, ret, all_records_by_type, versions, responses, output,
                   error>>
    /\ UNCHANGED agent_vars

\* 7. _build_output
BuildOutput ==
    /\ pc = "build_output"
    /\ output' = BuildDocument(item_types, relation_types, versions)
    /\ pc' = "done"
    /\ UNCHANGED <<arg, ret, item_types, all_records_by_type, relation_types,
                   versions, responses, error>>
    /\ UNCHANGED agent_vars

Next ==
    \/ GetProject
    \/ GetVersions
    \/ DiscoverTypes
    \/ FetchRecordsByType
    \/ AnalyzeAllFields
    \/ AnalyzeRelations
    \/ BuildOutput

Spec == Init /\ [][Next]_vars

-----------------------------------------------------------------------------
(* _compute_value_samples called on its own *)

\* <<"1", "0">> is what str() makes of the int 10
BaseValues ==
    {StrV(<< "b" >>), StrV(<< "a" >>), StrV(<< "1", "0" >>), IntV(10), BoolV(TRUE),
     StrV(Long101a), StrV(Long101b)}

\* n values, d of them distinct, listed in descending order and again
GenValues(n, d) == Tuple([i \in 1..n |-> StrV(Word((n - i) % d))])

\* n distinct values that agree on their first 100 characters
GenLongTail(n) == Tuple([i \in 1..n |-> StrV(Rep("a", MAX_STRING_LENGTH) \o Word(n - i))])

\* n values longer than 100 characters that differ within the first 100
GenLongHead(n) == Tuple([i \in 1..n |-> StrV(Word(n - i) \o Rep("a", MAX_STRING_LENGTH))])

\* n distinct values in descending order, each one observed twice in a row
GenRepeated(n) == Tuple([i \in 1..(2 * n) |-> StrV(Word(n - ((i + 1) \div 2)))])

\* the lists of values a field may have accumulated
ValueLists ==
    {<< >>}
    \cup ListsUpTo(BaseValues, MaxVals)
    \cup {GenValues(MaxGen, d) :
             d \in {MAX_SAMPLE_VALUES, MAX_UNIQUE_VALUES, MAX_UNIQUE_VALUES + 1, MaxGen}}
    \cup {GenLongTail(MaxGen), GenLongHead(MaxGen), GenRepeated(MaxGen)}

DataTypes == {"richText", "number", "datetime", "boolean", "string"}

InitSamples ==
    /\ pc = "call_samples"
    /\ arg \in {[values |-> v, data_type |-> t] : v \in ValueLists, t \in DataTypes}
    /\ ret = << >>
    /\ item_types = << >>
    /\ all_records_by_type = << >>
    /\ relation_types = << >>
    /\ versions = [all |-> << >>, current |-> None]
    /\ responses = << >>
    /\ output = << >>
    /\ error = ""
    /\ AgentIdle

\* unique_values, example_values = self._compute_value_samples(values, data_type)
ComputeValueSamples ==
    /\ pc = "call_samples"
    /\ ret' = _compute_value_samples(arg.values, arg.data_type)
    /\ pc' = "returned_samples"
    /\ UNCHANGED <<arg, item_types, all_records_by_type, relation_types, versions,
                   responses, output, error>>
    /\ UNCHANGED agent_vars

NextSamples == ComputeValueSamples

SpecSamples == InitSamples /\ [][NextSamples]_vars

-----------------------------------------------------------------------------
(* The data type and the access paths of one field, on their own *)

\* an entry of field_data at the "Build FieldInfo objects" loop: a custom one
\* is keyed by its normalized label, a standard one by its attribute name
FieldEntries ==
    {[field_key |-> _normalize_field_name(label), label |-> label, is_custom |-> TRUE] :
        label \in {sStatus, sTitle,
                   << "B", "u", "g", " ", "n", "o", "t", "e", "s" >>,
                   << "T", "e", "s", "t", " ", "S", "t", "e", "p", "s" >>}}
    \cup {[field_key |-> name, label |-> name, is_custom |-> FALSE] :
             name \in Range(standard_fields)}

\* the values of the entry: plain, with markup, long, a number, and markup
\* only after the first 10 values
FieldValueLists ==
    {<< StrV(<< "v" >>) >>, << StrV(sMarkup) >>, << StrV(Long501) >>, << IntV(3) >>,
     Tuple([i \in 1..11 |-> StrV(IF i = 11 THEN sMarkup ELSE << "v" >>)])}

InitField ==
    /\ pc = "call_field"
    /\ arg \in {[field_key |-> e.field_key, label |-> e.label, is_custom |-> e.is_custom,
                  values |-> v, types |-> t] :
                    e \in FieldEntries, v \in FieldValueLists,
                    t \in SUBSET {"string", "number", "date", "datetime", "boolean"}}
    /\ ret = << >>
    /\ item_types = << >>
    /\ all_records_by_type = << >>
    /\ relation_types = << >>
    /\ versions = [all |-> << >>, current |-> None]
    /\ responses = << >>
    /\ output = << >>
    /\ error = ""
    /\ AgentIdle

\* "Determine data type" and "Compute access paths" for one entry
InferField ==
    /\ pc = "call_field"
    /\ \E data_type \in {ResolveDataType(arg.field_key, arg.values, arg.types)} :
          ret' = [dataType |-> data_type,
                  access |-> _compute_access_paths(arg.field_key, arg.is_custom,
                                                   data_type)]
    /\ pc' = "returned_field"
    /\ UNCHANGED <<arg, item_types, all_records_by_type, relation_types, versions,
                   responses, output, error>>
    /\ UNCHANGED agent_vars

NextField == InferField

SpecField == InitField /\ [][NextField]_vars

-----------------------------------------------------------------------------
(* run_agent of ketryx_template_agent.py *)

sonnet == "claude-sonnet-4-5-20250929"
opus == "claude-opus-4-5-20250514"

\* dollars per million tokens
PRICING ==
    [m \in {sonnet, opus} |->
        IF m = sonnet THEN [input |-> 3, output |-> 15] ELSE [input |-> 15, output |-> 75]]

\* the cost of one response in millionths of a dollar:
\* (input_tokens / 1_000_000) * p["input"] + (output_tokens / 1_000_000) * p["output"]
estimate_cost(model, input_tokens, output_tokens) ==
    LET p == IF model \in DOMAIN PRICING THEN PRICING[model] ELSE PRICING[sonnet]
    IN input_tokens * p.input + output_tokens * p.output

\* the accumulated cost is beyond the limit
CostLimitExceeded(total, cost_limit) == total > cost_limit

\* total_cost >= cost_limit
CostLimitReached(total, cost_limit) == total >= cost_limit

\* what client.beta.messages.create does: it raises anthropic.APIError, or
\* returns a response with a usage, perhaps a container, a stop_reason and a
\* content; a block of the content is a text or the result of a code
\* execution with items, of which some carry a file_id ("" when they carry
\* none) that the files API then delivers (ok) or not
ApiReplies ==
    {[raised |-> TRUE, input_tokens |-> 0, output_tokens |-> 0, container |-> "",
      stop_reason |-> "", content |-> << >>]}
    \cup {[raised |-> FALSE, input_tokens |-> u[1], output_tokens |-> u[2],
           container |-> c, stop_reason |-> stop, content |-> blocks] :
             u \in {<< 0, 0 >>, << 1000000, 0 >>, << 0, 1000000 >>},
             c \in {"", "c1"},
             stop \in {"end_turn", "pause_turn", "max_tokens"},
             blocks \in
               {<< >>,
                << [type |-> "text", items |-> << >>] >>,
                << [type |-> "text", items |-> << >>],
                   [type |-> "bash_code_execution_tool_result",
                    items |-> << [file_id |-> "f1", ok |-> TRUE] >>] >>,
                << [type |-> "bash_code_execution_tool_result",
                    items |-> << [file_id |-> "f1", ok |-> FALSE] >>] >>,
                << [type |-> "bash_code_execution_tool_result",
                    items |-> << [file_id |-> "", ok |-> FALSE] >>],
                   [type |-> "bash_code_execution_tool_result",
                    items |-> << [file_id |-> "f1", ok |-> FALSE],
                                 [file_id |-> "f2", ok |-> TRUE] >>] >>}}

\* the items with a file_id of the code execution results of a content, in order
FilesOf(content) ==
    LET results == SelectSeq(content,
                             LAMBDA block : block.type = "bash_code_execution_tool_result")
    IN SelectSeq(Flatten(Tuple([i \in 1..Len(results) |-> results[i].items])),
                 LAMBDA item : item.file_id # "")

InitAgent ==
    /\ pc = "upload"
    /\ arg \in [model : {sonnet, opus, "other"},
                 max_iterations : 0..MaxIterations,
                 cost_limit : {0, 3000000, 10000000}]
    /\ ret = << >>
    /\ item_types = << >>
    /\ all_records_by_type = << >>
    /\ relation_types = << >>
    /\ versions = [all |-> << >>, current |-> None]
    /\ responses = << >>
    /\ output = << >>
    /\ error = ""
    /\ AgentIdle

\* "Upload all files first": an upload that fails raises out of run_agent;
\* then messages holds the first user message
UploadFiles ==
    /\ pc = "upload"
    /\ \E uploaded \in BOOLEAN :
          /\ pc' = IF uploaded THEN "loop" ELSE "raised"
          /\ error' = IF uploaded THEN "" ELSE "APIError"
          /\ messages' = IF uploaded THEN << "user" >> ELSE messages
    /\ UNCHANGED <<arg, ret, item_types, all_records_by_type, relation_types, versions,
                   responses, output, iteration, total_cost, container_id, has_file,
                   requests, written>>

\* the test of the while loop, and the cost test that opens its body
EnterIteration ==
    /\ pc = "loop"
    /\ IF iteration < arg.max_iterations
       THEN /\ iteration' = iteration + 1
            /\ IF CostLimitReached(total_cost, arg.cost_limit)
               THEN /\ output' = [success |-> FALSE, error |-> "Cost limit reached",
                                  total_cost |-> total_cost]
                    /\ pc' = "returned"
               ELSE /\ pc' = "request"
                    /\ UNCHANGED output
       ELSE /\ output' = [success |-> FALSE, error |-> "Max iterations",
                          total_cost |-> total_cost]
            /\ pc' = "returned"
            /\ UNCHANGED iteration
    /\ UNCHANGED <<arg, ret, item_types, all_records_by_type, relation_types, versions,
                   responses, error, total_cost, container_id, has_file, messages,
                   requests, written>>

\* client.beta.messages.create and the accounting of its usage
CreateMessage ==
    /\ pc = "request"
    /\ requests' = requests + 1
    /\ \E response \in ApiReplies :
          IF response.raised
          THEN /\ output' = [success |-> FALSE, error |-> "APIError",
                             total_cost |-> total_cost]
               /\ pc' = "returned"
               /\ UNCHANGED <<ret, total_cost, container_id>>
          ELSE /\ ret' = response
               /\ total_cost' = total_cost + estimate_cost(arg.model,
                                                           response.input_tokens,
                                                           response.output_tokens)
               /\ container_id' = IF response.container # "" THEN response.container
                                  ELSE container_id
               /\ pc' = "handle"
               /\ UNCHANGED output
    /\ UNCHANGED <<arg, item_types, all_records_by_type, relation_types, versions,
                   responses, error, iteration, has_file, messages, written>>

\* the loop over response.content, which saves the files it finds, and the
\* branches on response.stop_reason; a response the loop goes on from is
\* not read again
HandleResponse ==
    /\ pc = "handle"
    /\ \E files \in {FilesOf(ret.content)} :
          /\ has_file' = (files # << >>)
          /\ written' = written \o
                Tuple([i \in 1..Len(SelectSeq(files, LAMBDA item : item.ok)) |->
                          [iteration |-> iteration,
                           file_id |-> SelectSeq(files, LAMBDA item : item.ok)[i].file_id]])
          /\ IF ret.stop_reason = "end_turn" /\ files # << >>
             THEN /\ output' = [success |-> TRUE, output_path |-> "output_path",
                                total_cost |-> total_cost]
                  /\ pc' = "returned"
                  /\ UNCHANGED <<ret, messages>>
             ELSE /\ messages' = IF ret.stop_reason = "end_turn"
                                 THEN messages \o << "assistant", "user" >>
                                 ELSE Append(messages, "assistant")
                  /\ ret' = << >>
                  /\ pc' = "loop"
                  /\ UNCHANGED output
    /\ UNCHANGED <<arg, item_types, all_records_by_type, relation_types, versions,
                   responses, error, iteration, total_cost, container_id, requests>>

NextAgent ==
    \/ UploadFiles
    \/ EnterIteration
    \/ CreateMessage
    \/ HandleResponse

SpecAgent == InitAgent /\ [][NextAgent]_vars

\* run_agent is one sequential call: it takes its next step as long as it
\* has one
SpecAgentFair == SpecAgent /\ WF_vars(NextAgent)

-----------------------------------------------------------------------------
(* Reading the state for the properties below *)

\* the item types of the document extract() returned
EmittedTypes == IF pc = "done" THEN Range(output.itemTypes) ELSE {}

\* the records fetched for a type
RecordsOf(type_name) ==
    all_records_by_type[CHOOSE k \in 1..Len(all_records_by_type) :
                           all_records_by_type[k].key = type_name].records

\* the well-formed observations of a field key on one record
ObsOn(record, key) ==
    IF record.isdict
    THEN SelectSeq(StandardObs(record) \o CustomObs(record), LAMBDA o : o.key = key)
    ELSE << >>

\* the values observed for a field key over the records, in order
ValuesOf(records, key) ==
    Flatten(Tuple([i \in 1..Len(records) |->
                      Tuple([j \in 1..Len(ObsOn(records[i], key)) |->
                                ObsOn(records[i], key)[j].value])]))

\* a string value with no HTML-like marker and fewer than 500 characters
ShortPlain(v) ==
    /\ IsStr(v)
    /\ Len(v.s) < 500
    /\ \A tag \in html_indicators : ~Contains(v.s, tag)

\* whether the emitted field carries the attribute
Has(field, attribute) == attribute \in DOMAIN field

\* an integer percent string: digits, then "%"
IsPercent(s) ==
    /\ Len(s) >= 2
    /\ s[Len(s)] = "%"
    /\ \A i \in 1..(Len(s) - 1) : s[i] \in Range(Digits)

-----------------------------------------------------------------------------
(* C1 *)

sRoot_Cause == << "R", "o", "o", "t", "_", "C", "a", "u", "s", "e" >>

\* C1: a custom field labeled "Root Cause" whose observed values are all
\* strings under 500 characters without an HTML marker is emitted under the
\* key Root_Cause as richText, with access {plain: "fieldValue.Root_Cause",
\* rich: "~~fieldContent.Root_Cause"} and neither an enumerated-value nor an
\* example-value domain.
C1_RootCauseIsRichText ==
    \A t \in EmittedTypes : \A f \in Range(t.value.fields) :
        ( /\ f.key = sRoot_Cause
          /\ f.value.label = sRootCause
          /\ \A v \in Range(ValuesOf(RecordsOf(t.key), f.key)) : ShortPlain(v) )
        => /\ f.value.dataType = "richText"
           /\ f.value.access =
                 [plain |-> << "f", "i", "e", "l", "d", "V", "a", "l", "u", "e", "." >>
                            \o sRoot_Cause,
                  rich |-> << "~", "~", "f", "i", "e", "l", "d", "C", "o", "n", "t",
                              "e", "n", "t", "." >> \o sRoot_Cause]
           /\ ~Has(f.value, "uniqueValues")
           /\ ~Has(f.value, "exampleValues")

-----------------------------------------------------------------------------
(* C2 *)

\* the records of the list on which the field is present with a non-empty value
RecordsWith(records, key) == {i \in 1..Len(records) : ObsOn(records[i], key) # << >>}

\* C2: for every emitted field of every type, whatever the records (also when
\* a record carries the same label more than once): a field present with a
\* non-empty value on every record of the type has no fillRate attribute, and
\* a field present on fewer than all of them has a fillRate attribute that is
\* an integer percent string.
C2_FillRateIffPartial ==
    \A t \in EmittedTypes : \A f \in Range(t.value.fields) :
        LET records == RecordsOf(t.key)
        IN IF RecordsWith(records, f.key) = 1..Len(records)
           THEN ~Has(f.value, "fillRate")
           ELSE Has(f.value, "fillRate") /\ IsPercent(f.value.fillRate)

-----------------------------------------------------------------------------
(* C5 and C6 *)

\* the label, lower-cased, contains one of the fixed semantic substrings
LabelMatches(label) ==
    \E pattern \in RICH_TEXT_FIELD_PATTERNS : Contains(Lower(label), pattern)

\* one of the first 10 values holds an HTML-like marker or exceeds 500 characters
FirstTenMarked(values) ==
    \E i \in 1..Min(10, Len(values)) :
        /\ IsStr(values[i])
        /\ \/ \E tag \in html_indicators : Contains(values[i].s, tag)
           \/ Len(values[i].s) > 500

\* C5: a field is classified richText whenever its label, lower-cased,
\* contains one of the fixed semantic substrings, and whenever one of its
\* first 10 observed values holds an HTML-like marker or exceeds 500
\* characters; a field for which neither holds is never classified richText.
C5_RichTextIffLabelOrValues ==
    \A t \in EmittedTypes : \A f \in Range(t.value.fields) :
        (f.value.dataType = "richText")
        <=> \/ LabelMatches(f.value.label)
            \/ FirstTenMarked(ValuesOf(RecordsOf(t.key), f.key))

\* the list in the opposite order
Reverse(s) == Tuple([i \in 1..Len(s) |-> s[Len(s) + 1 - i]])

\* C6: the dataType of a field and its custom/standard access form are the
\* same for every permutation of the type's records; here, for the records
\* taken in the opposite order.
C6_SameUnderReordering ==
    pc = "analyze_relations" =>
        \A k \in 1..Len(item_types) :
            \A g \in Range(BuildFields(Reverse(RecordsOf(item_types[k].key)))) :
                \A f \in Range(item_types[k].fields) :
                    f.key = g.key =>
                        /\ f.dataType = g.dataType
                        /\ f.isCustomField = g.isCustomField
                        /\ f.access = g.access

-----------------------------------------------------------------------------
(* C3 and C4 *)

\* an observed value made a string: a string cut to its first 100 characters,
\* any other value written out
Canon(v) == IF IsStr(v) THEN SubSeq(v.s, 1, Min(100, Len(v.s))) ELSE PyStr(v)

CanonSet(values) == {Canon(values[i]) : i \in 1..Len(values)}

\* strictly ascending, so without a repeated element
Ascending(s) == \A i \in 1..(Len(s) - 1) : StrLess(s[i], s[i + 1])

\* where the canonical value x is first seen in the list
FirstAt(values, x) ==
    CHOOSE i \in 1..Len(values) :
        /\ Canon(values[i]) = x
        /\ \A j \in 1..(i - 1) : Canon(values[j]) # x

\* C3: for a non-richText field with at least one value whose canonical,
\* deduplicated values number at most 25, _compute_value_samples returns a
\* non-empty enumerated domain that is exactly that set in ascending order,
\* and an empty example list.
C3_SmallDomainEnumerated ==
    ( /\ pc = "returned_samples"
      /\ arg.data_type # "richText"
      /\ arg.values # << >>
      /\ Cardinality(CanonSet(arg.values)) <= 25 )
    => /\ ret[1] # << >>
       /\ Ascending(ret[1])
       /\ Range(ret[1]) = CanonSet(arg.values)
       /\ ret[2] = << >>

\* more than 25 values that canonicalize to exactly 25, enumerated in an order
\* that is not the order they were seen in
C3_Witness ==
    /\ pc = "returned_samples"
    /\ arg.data_type # "richText"
    /\ Len(arg.values) > 25
    /\ Cardinality(CanonSet(arg.values)) = 25
    /\ Len(ret[1]) = 25
    /\ ret[1][1] # Canon(arg.values[1])
    /\ ret[2] = << >>

\* C4: for a non-richText field whose canonical, deduplicated values number
\* more than 25, _compute_value_samples returns an empty enumerated domain
\* and as examples exactly the first 5 distinct values in first-seen order.
C4_LargeDomainExamples ==
    ( /\ pc = "returned_samples"
      /\ arg.data_type # "richText"
      /\ Cardinality(CanonSet(arg.values)) > 25 )
    => /\ ret[1] = << >>
       /\ Len(ret[2]) = 5
       /\ \A k \in 1..5 : ret[2][k] \in CanonSet(arg.values)
       /\ \A k \in 1..4 :
             FirstAt(arg.values, ret[2][k]) < FirstAt(arg.values, ret[2][k + 1])
       /\ \A x \in CanonSet(arg.values) \ Range(ret[2]) :
             FirstAt(arg.values, x) > FirstAt(arg.values, ret[2][5])

\* more than 25 distinct values, some seen twice among the first ones, and
\* examples that are not in ascending order
C4_Witness ==
    /\ pc = "returned_samples"
    /\ arg.data_type # "richText"
    /\ Cardinality(CanonSet(arg.values)) > 25
    /\ Canon(arg.values[1]) = Canon(arg.values[2])
    /\ Len(ret[2]) = 5
    /\ ~Ascending(ret[2])

-----------------------------------------------------------------------------
(* C7 *)

\* the relation names in the order the scan of the input meets them: types
\* in processing order, their records and relation entries in order
RelationsSeen(by_type) ==
    Flatten(Tuple([k \in 1..Len(by_type) |->
        Flatten(Tuple([i \in 1..Len(by_type[k].records) |->
            LET entries == SelectSeq(by_type[k].records[i].relations,
                                     LAMBDA relation : relation.isdict)
            IN Tuple([j \in 1..Len(entries) |-> RelType(entries[j])])]))]))

\* where a name is first met in the scan
FirstSeen(seen, name) ==
    CHOOSE i \in 1..Len(seen) : seen[i] = name /\ \A j \in 1..(i - 1) : seen[j] # name

\* C7: the relation catalog of the document lists at most 20 relations, each
\* with its aggregate count, in non-increasing order of count, and of two
\* relations of equal count the one met first in the scan comes first.
C7_RelationCatalogOrder ==
    pc = "done" =>
        LET seen == RelationsSeen(all_records_by_type)
            catalog == output.relationTypes
        IN /\ Len(catalog) <= 20
           /\ \A i \in 1..Len(catalog) :
                 catalog[i].count =
                     Cardinality({n \in 1..Len(seen) : seen[n] = catalog[i].relationType})
           /\ \A i, j \in 1..Len(catalog) :
                 i < j =>
                    /\ catalog[i].count >= catalog[j].count
                    /\ catalog[i].count = catalog[j].count =>
                          FirstSeen(seen, catalog[i].relationType)
                              < FirstSeen(seen, catalog[j].relationType)

\* more than 20 relations found, 20 listed, the first one by its count and
\* not by being met first, the next ones of equal count
C7_Witness ==
    /\ pc = "done"
    /\ Len(relation_types) > 20
    /\ Len(output.relationTypes) = 20
    /\ output.relationTypes[1].relationType # relation_types[1].key
    /\ output.relationTypes[1].count > output.relationTypes[2].count
    /\ output.relationTypes[2].count = output.relationTypes[3].count

-----------------------------------------------------------------------------
(* C8 *)

\* the full fetch of a type returned at least one record
Returned(reply) == reply.ok /\ Len(reply.records) >= 1

\* the field keys the well-formed entries of the records give
FieldKeysIn(records) ==
    UNION {{o.key : o \in Range(StandardObs(records[i]) \o CustomObs(records[i]))} :
              i \in {n \in 1..Len(records) : records[n].isdict}}

\* C8: once the types are fetched, a discovered type whose fetch failed or
\* returned no record is absent from the type map and from the document, and
\* every discovered type whose fetch returned a record is present, with its
\* count and, in the document, the fields of its own records; the fetch
\* itself never ends the run.
C8_OnlyEmptyTypesDropped ==
    /\ pc = "analyze_fields" => error = ""
    /\ \A n \in 1..Len(responses) :
          LET key == responses[n].key
              reply == responses[n].response
              count == IF reply.total = None THEN Len(reply.records) ELSE reply.total.n
          IN IF Returned(reply)
             THEN /\ \E i \in 1..Len(item_types) :
                        item_types[i].key = key /\ item_types[i].count = count
                  /\ pc = "done" =>
                        \E t \in EmittedTypes :
                            /\ t.key = key
                            /\ t.value.count = count
                            /\ {f.key : f \in Range(t.value.fields)}
                                   = FieldKeysIn(reply.records)
             ELSE /\ \A i \in 1..Len(item_types) : item_types[i].key # key
                  /\ \A t \in EmittedTypes : t.key # key

\* two types discovered, the fetch of the first failed, the second one is in
\* the document with fields
C8_Witness ==
    /\ pc = "done"
    /\ Len(responses) = 2
    /\ ~responses[1].response.ok
    /\ Returned(responses[2].response)
    /\ Len(output.itemTypes) = 1
    /\ output.itemTypes[1].key = responses[2].key
    /\ output.itemTypes[1].value.fields # << >>

-----------------------------------------------------------------------------
(* C9 *)

\* the field entries of a record labeled exactly "Status"
StatusEntries(record) ==
    SelectSeq(record.fields, LAMBDA e : e.isdict /\ e.label = sStatus)

\* each record carries a field entry labeled "Status"
EachCarriesStatus(records) ==
    \A i \in 1..Len(records) :
        records[i].isdict /\ StatusEntries(records[i]) # << >>

\* the values of those entries
StatusValuesIn(records) ==
    UNION {{e.value : e \in Range(StatusEntries(records[i]))} : i \in 1..Len(records)}

\* what the document says of the statuses of type t whose Status values are
\* the set values: the statuses list is that set in ascending order, the
\* Status field enumerates the same list when it has at most 25 members,
\* and the Status field has no fillRate
StatusesMatchDomain(t, values) ==
    LET statuses == IF Has(t.value, "statuses") THEN t.value.statuses ELSE << >>
    IN /\ Range(statuses) = values
       /\ \A i \in 1..(Len(statuses) - 1) : ValueLess(statuses[i], statuses[i + 1])
       /\ \E f \in Range(t.value.fields) :
             /\ f.key = sStatus
             /\ ~Has(f.value, "fillRate")
             /\ Cardinality(values) <= 25 =>
                   /\ Has(f.value, "uniqueValues")
                   /\ f.value.uniqueValues
                         = Tuple([i \in 1..Len(statuses) |-> PyStr(statuses[i])])

\* C9 as stated: for a type whose records each carry a field entry labeled
\* exactly "Status", the statuses list is the deduplicated set of those values
\* sorted ascending, the Status field's enumerated domain is the same sorted
\* list (when at most 25 distinct values), and the Status field omits fillRate.
C9_StatusesMatchDomain ==
    \A t \in EmittedTypes :
        EachCarriesStatus(RecordsOf(t.key))
        => StatusesMatchDomain(t, StatusValuesIn(RecordsOf(t.key)))

\* a non-empty string of at most 100 characters without an HTML-like marker
ShortStatus(v) ==
    /\ IsStr(v)
    /\ 1 <= Len(v.s) /\ Len(v.s) <= 100
    /\ \A tag \in html_indicators : ~Contains(v.s, tag)

\* C9, amended: the same holds for a type whose records each carry a field
\* entry labeled exactly "Status" when every such entry's value is a
\* non-empty string of at most 100 characters without an HTML-like marker.
C9_ShortStatusesMatchDomain ==
    \A t \in EmittedTypes :
        ( /\ EachCarriesStatus(RecordsOf(t.key))
          /\ \A v \in StatusValuesIn(RecordsOf(t.key)) : ShortStatus(v) )
        => StatusesMatchDomain(t, StatusValuesIn(RecordsOf(t.key)))

\* three records with Status Open, Open, Closed give statuses and an
\* enumerated domain of Closed, Open
C9_Witness ==
    /\ pc = "done"
    /\ \E t \in EmittedTypes :
          /\ RecordsOf(t.key) = ScenarioStatus
          /\ t.value.statuses = << StrV(sClosed), StrV(sOpen) >>
          /\ \E f \in Range(t.value.fields) :
                /\ f.key = sStatus
                /\ f.value.uniqueValues = << sClosed, sOpen >>
                /\ ~Has(f.value, "fillRate")

-----------------------------------------------------------------------------
(* C10 *)

\* some record, field entry or relation entry of the list is not a mapping,
\* or a field entry has no label
Malformed(records) ==
    \E i \in 1..Len(records) :
        \/ ~records[i].isdict
        \/ \E e \in Range(records[i].fields) : ~e.isdict \/ e.label = << >>
        \/ \E r \in Range(records[i].relations) : ~r.isdict

\* C10: malformed input never makes the inference pass fail: when a fetched
\* record list holds records or entries that are not mappings or lack a
\* label, no step of the analysis ends in an AttributeError on them.
C10_MalformedInputNeverFails ==
    (\E k \in 1..Len(all_records_by_type) : Malformed(all_records_by_type[k].records))
    => error # "AttributeError"

-----------------------------------------------------------------------------
(* C11 *)

\* C11: extract() ends with an error exactly when the retrieval of the
\* project metadata fails, and then before any type is discovered or
\* fetched; after any other failed retrieval it goes on and returns a
\* document, so no run ends with an error once the project is retrieved.
C11_OnlyProjectFailureAborts ==
    pc = "raised" =>
        /\ error = "RuntimeError"
        /\ item_types = << >>
        /\ responses = << >>

-----------------------------------------------------------------------------
(* C12 and C13 *)

\* C12: the dataType of a field is resolved by fixed priority, first match
\* wins: richText if the rich-text test holds, otherwise number if a hint is
\* "number", otherwise datetime if a hint is "date" or "datetime", otherwise
\* boolean if a hint is "boolean", otherwise string; it is always one of
\* these five values.
C12_DataTypePriority ==
    pc = "returned_field" =>
        LET rich == _is_rich_text_field(arg.field_key, arg.values)
            number == "number" \in arg.types
            date == "date" \in arg.types \/ "datetime" \in arg.types
            boolean == "boolean" \in arg.types
        IN /\ ret.dataType \in {"richText", "number", "datetime", "boolean", "string"}
           /\ rich => ret.dataType = "richText"
           /\ (~rich /\ number) => ret.dataType = "number"
           /\ (~rich /\ ~number /\ date) => ret.dataType = "datetime"
           /\ (~rich /\ ~number /\ ~date /\ boolean) => ret.dataType = "boolean"
           /\ (~rich /\ ~number /\ ~date /\ ~boolean) => ret.dataType = "string"

\* a field that is not rich text, with number, date and boolean hints, is a number
C12_Witness ==
    /\ pc = "returned_field"
    /\ ~_is_rich_text_field(arg.field_key, arg.values)
    /\ {"number", "date", "boolean"} \subseteq arg.types
    /\ ret.dataType = "number"

\* the label with every space made an underscore
Underscored(label) ==
    Tuple([i \in 1..Len(label) |-> IF label[i] = " " THEN "_" ELSE label[i]])

\* C13: the access object is determined by the custom flag and the dataType:
\* custom and richText give plain "fieldValue.<normalized>" and rich
\* "~~fieldContent.<normalized>", custom and any other type only that plain
\* path, standard and richText give plain "<label>" and rich "~~<label>",
\* standard and any other type only plain "<label>"; there is a rich path
\* if and only if the dataType is richText.
C13_AccessByFlagAndType ==
    pc = "returned_field" =>
        LET name == Underscored(arg.label)
            plain == << "f", "i", "e", "l", "d", "V", "a", "l", "u", "e", "." >> \o name
            rich == << "~", "~", "f", "i", "e", "l", "d", "C", "o", "n", "t", "e", "n",
                       "t", "." >> \o name
        IN /\ ret.access =
                 IF arg.is_custom
                 THEN IF ret.dataType = "richText"
                      THEN [plain |-> plain, rich |-> rich]
                      ELSE [plain |-> plain]
                 ELSE IF ret.dataType = "richText"
                      THEN [plain |-> arg.label, rich |-> << "~", "~" >> \o arg.label]
                      ELSE [plain |-> arg.label]
           /\ ("rich" \in DOMAIN ret.access) <=> (ret.dataType = "richText")

\* a custom rich-text field whose label holds a space
C13_Witness ==
    /\ pc = "returned_field"
    /\ arg.is_custom
    /\ \E i \in 1..Len(arg.label) : arg.label[i] = " "
    /\ ret.dataType = "richText"
    /\ "rich" \in DOMAIN ret.access

-----------------------------------------------------------------------------
(* C14 *)

\* C14: for every inferred field of every type, whatever the records, the
\* computed fill rate (the observations of the field divided by the number of
\* records of the type, times 100) lies between 0 and 100 inclusive.
C14_FillRateWithinBounds ==
    \A k \in 1..Len(item_types) : \A f \in Range(item_types[k].fields) :
        /\ f.fillRate.den > 0
        /\ 0 <= f.fillRate.num
        /\ f.fillRate.num <= 100 * f.fillRate.den

-----------------------------------------------------------------------------
(* C15 *)

\* the records on which the fixed attribute is present with a non-empty value
RecordsWithAttribute(records, name) ==
    {i \in 1..Len(records) :
        /\ records[i].isdict
        /\ \E o \in Range(StandardObs(records[i])) : o.key = name}

\* C15: a field inferred from one of the four fixed record attributes (title,
\* revision, isControlled, createdAt) is marked non-custom and has the
\* standard access form, plain = the attribute name, whatever the records,
\* also when a dynamic entry's label normalizes to the attribute's name.
C15_FixedAttributesStandard ==
    \A k \in 1..Len(item_types) : \A f \in Range(item_types[k].fields) :
        ( /\ f.key \in Range(standard_fields)
          /\ RecordsWithAttribute(RecordsOf(item_types[k].key), f.key) # {} )
        => /\ ~f.isCustomField
           /\ f.access.plain = f.key

-----------------------------------------------------------------------------
(* C16 *)

\* the text cut to at most n characters, the last three of them dots when cut
CutTo(text, n) ==
    IF Len(text) <= n THEN text ELSE SubSeq(text, 1, n - 3) \o << ".", ".", "." >>

\* the entry of a projection is the record's own title, cut to 80 characters
FromTitle(e, record) ==
    /\ e.key = sTitle
    /\ Truthy(record.title)
    /\ e.value = CutTo(PyStr(record.title), 80)

\* the entry of a projection is the value of one of the record's dynamic
\* entries that is non-empty, cut to 60 characters
FromCustom(e, record) ==
    \E i \in 1..Len(record.fields) :
        /\ record.fields[i].isdict
        /\ record.fields[i].label # << >>
        /\ Underscored(record.fields[i].label) = e.key
        /\ Truthy(record.fields[i].value)
        /\ e.value = CutTo(PyStr(record.fields[i].value), 60)

\* a record without a title and without a dynamic entry that could be shown
ProjectsNothing(record, fields) ==
    \/ ~record.isdict
    \/ /\ ~Truthy(record.title)
       /\ \A i \in 1..Len(record.fields) :
             \/ ~record.fields[i].isdict
             \/ record.fields[i].label = << >>
             \/ ~Truthy(record.fields[i].value)
             \/ IsRichIn(fields, Underscored(record.fields[i].label))

\* the sample is a projection of the record: a title of at most 80 characters
\* if the record has one, and at most 4 dynamic values of at most 60 each
ProjectionOf(sample, record) ==
    /\ record.isdict
    /\ sample # << >>
    /\ \A i, j \in 1..Len(sample) : sample[i].key = sample[j].key => i = j
    /\ \A e \in Range(sample) :
          /\ e.value # << >>
          /\ FromTitle(e, record) \/ FromCustom(e, record)
          /\ Len(e.value) <= IF e.key = sTitle THEN 80 ELSE 60
    /\ Truthy(record.title) => \E e \in Range(sample) : e.key = sTitle
    /\ Cardinality({i \in 1..Len(sample) : ~FromTitle(sample[i], record)}) <= 4

\* the samples are projections of the first 3 records, in order, and the
\* records among these that are passed over project nothing
SamplesFromFirstThree(samples, records, fields) ==
    /\ Len(samples) <= 3
    /\ \E from \in [1..Len(samples) -> 1..Min(3, Len(records))] :
          /\ \A i, j \in 1..Len(samples) : i < j => from[i] < from[j]
          /\ \A i \in 1..Len(samples) : ProjectionOf(samples[i], records[from[i]])
          /\ \A n \in 1..Min(3, Len(records)) :
                (\A i \in 1..Len(samples) : from[i] # n)
                => ProjectsNothing(records[n], fields)

\* the types with inferred fields, once _analyze_all_fields has returned
Analyzed == {k \in 1..Len(item_types) : item_types[k].fields # << >>}

\* C16 as stated: _build_sample_records returns at most 3 projections, taken
\* from the first 3 records in order; each holds a title of at most 80
\* characters if the record has one and at most 4 custom values of at most 60
\* characters; no projection holds a field whose dataType is richText nor an
\* empty value; a record whose projection would be empty contributes nothing.
C16_SamplesWithoutRichText ==
    pc = "analyze_relations" =>
        \A k \in Analyzed :
            /\ SamplesFromFirstThree(item_types[k].sampleRecords,
                                     RecordsOf(item_types[k].key), item_types[k].fields)
            /\ \A sample \in Range(item_types[k].sampleRecords) :
                  \A e \in Range(sample) : ~IsRichIn(item_types[k].fields, e.key)

\* C16, amended: as above, except that the richText exclusion bears on the
\* custom values only: a projection holds no custom value of a field whose
\* dataType is richText, while the record's own title is shown whatever the
\* dataType of the title field.
C16_SamplesWithoutRichCustom ==
    pc = "analyze_relations" =>
        \A k \in Analyzed :
            /\ SamplesFromFirstThree(item_types[k].sampleRecords,
                                     RecordsOf(item_types[k].key), item_types[k].fields)
            /\ \A sample \in Range(item_types[k].sampleRecords) :
                  \A e \in Range(sample) :
                      IsRichIn(item_types[k].fields, e.key) => e.key = sTitle

\* four records of which the first has a title of more than 80 characters and
\* more than 4 non-empty custom values, sampled as two projections, the first
\* with its title and 4 custom values
C16_Witness ==
    /\ pc = "analyze_relations"
    /\ \E k \in Analyzed :
          /\ Len(RecordsOf(item_types[k].key)) = 4
          /\ Len(PyStr(RecordsOf(item_types[k].key)[1].title)) > 80
          /\ Len(item_types[k].sampleRecords) = 2
          /\ Len(item_types[k].sampleRecords[1]) = 5
          /\ \E e \in Range(item_types[k].sampleRecords[1]) : Len(e.value) = 60

-----------------------------------------------------------------------------
(* C17 *)

\* the part of the text before its first "-"; the text must hold one
BeforeDash(text) ==
    SubSeq(text, 1, (CHOOSE i \in 1..Len(text) :
                        text[i] = "-" /\ \A j \in 1..(i - 1) : text[j] # "-") - 1)

\* entry e of record r is labeled "ID" and its value, which holds a "-",
\* starts with 1 to 6 letters before the first "-"
Qualifies(records, r, e) ==
    /\ records[r].isdict
    /\ records[r].fields[e].isdict
    /\ records[r].fields[e].label = << "I", "D" >>
    /\ Truthy(records[r].fields[e].value)
    /\ \E i \in 1..Len(PyStr(records[r].fields[e].value)) :
          PyStr(records[r].fields[e].value)[i] = "-"
    /\ LET prefix == BeforeDash(PyStr(records[r].fields[e].value))
       IN /\ Len(prefix) \in 1..6
          /\ \A i \in 1..Len(prefix) : prefix[i] \in Range(UpperCase) \cup Range(LowerCase)

\* the qualifying entries among the first 20 records, as <<record, entry>>
QualifyingIn(records) ==
    UNION {{<< r, e >> : e \in {n \in 1..Len(records[r].fields) :
                                    Qualifies(records, r, n)}} :
              r \in {n \in 1..Min(20, Len(records)) : records[n].isdict}}

\* C17: after the fetch, the short name of a type is empty or the part
\* before the first "-" of the value of an "ID" entry of one of the first 20
\* records; when set it is alphabetic with 1 to 6 characters, and it is the
\* first qualifying one in record-then-entry order; it is empty only when
\* no entry of the first 20 records qualifies.
C17_ShortNameFirstQualifying ==
    pc = "analyze_fields" =>
        \A k \in 1..Len(item_types) :
            LET records == RecordsOf(item_types[k].key)
                found == QualifyingIn(records)
            IN IF found = {} THEN item_types[k].shortName = << >>
               ELSE \E p \in found :
                      /\ \A q \in found : p[1] < q[1] \/ (p[1] = q[1] /\ p[2] <= q[2])
                      /\ item_types[k].shortName =
                            BeforeDash(PyStr(records[p[1]].fields[p[2]].value))
                      /\ Len(item_types[k].shortName) \in 1..6

\* a type whose first record has the ID "12-3" and whose second has the IDs
\* "TC-1-2" and "REQ-9" is named "TC", and a type of more than 20 records
\* whose last record alone has an ID has no short name
C17_Witness ==
    /\ pc = "analyze_fields"
    /\ Len(item_types) = 2
    /\ item_types[1].shortName = << "T", "C" >>
    /\ Cardinality(QualifyingIn(RecordsOf(item_types[1].key))) = 2
    /\ item_types[2].shortName = << >>
    /\ Len(RecordsOf(item_types[2].key)) > 20
    /\ \E r \in 21..Len(RecordsOf(item_types[2].key)) :
          Qualifies(RecordsOf(item_types[2].key), r, 1)

-----------------------------------------------------------------------------
(* C18 *)

\* the relation names the records of one type carry, one per relation entry
CarriedBy(type_name) ==
    RelationsSeen(<< [key |-> type_name, records |-> RecordsOf(type_name)] >>)

\* C18: after the relation analysis, the count of each relation name is the
\* number of relation entries with that name over all records of all retained
\* types, every name met has one catalog entry, its destination-type set is
\* empty, and a type lists a relation as outgoing if and only if one of its
\* own records carries a relation entry with that name.
C18_RelationCountsAndOutgoing ==
    pc = "build_output" =>
        LET seen == RelationsSeen(all_records_by_type)
        IN /\ {relation_types[i].key : i \in 1..Len(relation_types)} = Range(seen)
           /\ \A i, j \in 1..Len(relation_types) :
                 relation_types[i].key = relation_types[j].key => i = j
           /\ \A i \in 1..Len(relation_types) :
                 /\ relation_types[i].count =
                       Cardinality({n \in 1..Len(seen) : seen[n] = relation_types[i].key})
                 /\ relation_types[i].toTypes = << >>
           /\ \A k \in 1..Len(item_types) :
                 {e.relation : e \in Range(item_types[k].outgoingRelations)}
                 = Range(CarriedBy(item_types[k].key))

\* two types, a relation carried twice by the records of the first and not
\* by those of the second, which carry another one
C18_Witness ==
    /\ pc = "build_output"
    /\ Len(item_types) = 2
    /\ \E i \in 1..Len(relation_types) :
          /\ relation_types[i].count = 2
          /\ relation_types[i].key \in Range(CarriedBy(item_types[1].key))
          /\ relation_types[i].key \notin Range(CarriedBy(item_types[2].key))
          /\ \E e \in Range(item_types[1].outgoingRelations) :
                e.relation = relation_types[i].key
    /\ item_types[2].outgoingRelations # << >>

-----------------------------------------------------------------------------
(* C19 and C20 *)

\* C19: run_agent returns success only if, in the iteration whose response
\* ended with end_turn, which is the one it returns from, a generated file
\* was downloaded and written to output_path without error.
C19_SuccessOnlyIfWritten ==
    (pc = "returned" /\ output.success) =>
        /\ ret.stop_reason = "end_turn"
        /\ \E i \in 1..Len(written) : written[i].iteration = iteration

\* C20: run_agent ends, after at most max_iterations message requests; it
\* issues no request when the accumulated cost has reached cost_limit; and
\* what it returns is a success, "Cost limit reached", an API error or
\* "Max iterations".
C20_BoundedRequestsAndOutcome ==
    /\ [](requests <= arg.max_iterations)
    /\ [](pc = "request" => total_cost < arg.cost_limit)
    /\ [](pc = "returned" =>
            \/ output = [success |-> TRUE, output_path |-> "output_path",
                         total_cost |-> total_cost]
            \/ /\ output.success = FALSE
               /\ output.error \in {"Cost limit reached", "APIError", "Max iterations"}
               /\ output.error = "Cost limit reached" => total_cost >= arg.cost_limit
               /\ output.error = "Max iterations" => iteration = arg.max_iterations)
    /\ (pc = "loop") ~> (pc = "returned")

\* a run that made all its max_iterations requests, the last of them with the
\* accumulated cost below the limit, and returned "Max iterations"
C20_Witness ==
    /\ pc = "returned"
    /\ arg.max_iterations = MaxIterations
    /\ requests = arg.max_iterations
    /\ 0 < total_cost
    /\ output.success = FALSE
    /\ output.error = "Max iterations"

=============================================================================
